---- MODULE Spec2Model ----
(***************************************************************************)
(* fern-format: the log-record formatter of src/src/lib.rs.                *)
(*                                                                         *)
(* A Format is built, `callback` turns it into a renderer that owns one    *)
(* ThreadName (an RwLock<HashMap<ThreadId, Style>> and an AtomicU8), and   *)
(* every logging thread calls the renderer once per record.  A render is   *)
(* split at the points where another thread can interleave: the calls of   *)
(* RwLock::read and RwLock::write, the drop of each guard and the atomic   *)
(* fetch_add.                                                              *)
(***************************************************************************)
EXTENDS Integers, Sequences, FiniteSets, TLC

(***************************************************************************)
(* Bounds of the model.                                                    *)
(***************************************************************************)
\* threads that log concurrently, in every interleaving (Spec)
NumThreads == 2
\* records each thread logs
MaxRenders == 2
\* threads that log one after the other in SpecMany: enough to carry the
\* AtomicU8 past 255
ManyThreads == 258

(***************************************************************************)
(* Program constants.                                                      *)
(***************************************************************************)
\* AtomicU8 / u8: values are 0..255, arithmetic wraps modulo 2^8
U8Modulus == 256
BOLD == 2
COLOR == 7
ITALIC == 2

\* std::thread::ThreadId values are handed out from 1 upward and never reused
Threads == 1..NumThreads
Levels == {"ERROR", "WARN", "INFO", "DEBUG", "TRACE"}

(***************************************************************************)
(* owo_colors::Style, as far as this crate uses it.                        *)
(***************************************************************************)
\* Style::new()
StyleNew == [fg |-> "none", bold |-> FALSE, italic |-> FALSE, dimmed |-> FALSE]

IsPlain(style) == style = StyleNew

\* the order of the arms of the last match of gen_color
Hues == <<"bright_white", "bright_blue", "bright_yellow", "bright_cyan",
          "bright_purple", "bright_green", "bright_red">>

\* gen_color without its second `let i = i % total`: the weight and the hue
\* are taken from the index reduced modulo 28 only
gen_color_digits_stale_i(i) ==
    LET total0 == (BOLD * COLOR * ITALIC) % U8Modulus
        i1     == i % total0
        total1 == total0 \div ITALIC
        total2 == total1 \div BOLD
        total3 == total2 \div COLOR
    IN  [italic |-> i1 \div total1, bold |-> i1 \div total2, hue |-> (i1 % total2) \div total3]

\* gen_color with the first two matches exchanged: the weight taken from the
\* first quotient and the emphasis from the second
gen_color_digits_bold_first(i) ==
    LET total0 == (BOLD * COLOR * ITALIC) % U8Modulus
        i1     == i % total0
        total1 == total0 \div ITALIC
        i2     == i1 % total1
        total2 == total1 \div BOLD
        i3     == i2 % total2
        total3 == total2 \div COLOR
    IN  [italic |-> i2 \div total2, bold |-> i1 \div total1, hue |-> i3 \div total3]

\* the three quotients gen_color matches on, in u8 arithmetic
gen_color_digits(i) ==
    LET total0 == (BOLD * COLOR * ITALIC) % U8Modulus
        i1     == i % total0
        total1 == total0 \div ITALIC
        i2     == i1 % total1
        total2 == total1 \div BOLD
        i3     == i2 % total2
        total3 == total2 \div COLOR
    IN  [italic |-> i1 \div total1, bold |-> i2 \div total2, hue |-> i3 \div total3]

\* gen_color reaches one of its `_ => unreachable!()` arms (a panic)
gen_color_unreachable(i) ==
    LET d == gen_color_digits(i)
    IN  d.italic \notin {0, 1} \/ d.bold \notin {0, 1} \/ d.hue \notin 0..6

gen_color(i) ==
    LET d == gen_color_digits(i)
    IN  [fg     |-> IF d.hue \in 0..6 THEN Hues[d.hue + 1] ELSE "none",
         bold   |-> d.bold = 1,
         italic |-> d.italic = 1,
         dimmed |-> FALSE]

\* Mimics the color style of journald
level_style(level) ==
    CASE level = "ERROR" -> [StyleNew EXCEPT !.fg = "bright_red", !.bold = TRUE]
      [] level = "WARN"  -> [StyleNew EXCEPT !.fg = "bright_yellow", !.bold = TRUE]
      [] level = "INFO"  -> [StyleNew EXCEPT !.fg = "bright_white", !.bold = TRUE]
      [] level = "DEBUG" -> [StyleNew EXCEPT !.fg = "white"]
      [] OTHER           -> [StyleNew EXCEPT !.dimmed = TRUE]

(***************************************************************************)
(* A rendered line is a sequence of pieces: literal text, the ANSI prefix  *)
(* of a style, or the ANSI reset that ends a styled span.                  *)
(***************************************************************************)
Text(s)       == [kind |-> "text", text |-> s, style |-> StyleNew]
AnsiPrefix(s) == [kind |-> "prefix", text |-> "", style |-> s]
AnsiReset     == [kind |-> "reset", text |-> "", style |-> StyleNew]

\* `x.style(s)` displayed: owo_colors writes the escape codes of s, x, and a
\* reset; a style with nothing set writes x alone
Styled(pieces, s) ==
    IF IsPlain(s) THEN pieces ELSE <<AnsiPrefix(s)>> \o pieces \o <<AnsiReset>>

(***************************************************************************)
(* threadid_as_u64: format!("{:?}", id), strip "ThreadId(" and ")", parse. *)
(* Strings are sequences of one-character strings here.                    *)
(***************************************************************************)
DigitChars == <<"0", "1", "2", "3", "4", "5", "6", "7", "8", "9">>

RECURSIVE Decimal(_)
\* the decimal digits of n, as Display for an unsigned integer writes them
Decimal(n) ==
    IF n < 10 THEN <<DigitChars[n + 1]>>
    ELSE Decimal(n \div 10) \o <<DigitChars[(n % 10) + 1]>>

\* the form `{:?}` of a ThreadId has in the std the program runs with:
\* "tuple" is the ThreadId(2) of the releases so far; std promises no Debug
\* form, and "other" stands for any other, here ThreadId{2}
VARIABLE thread_id_debug

DebugForms == {"tuple", "other"}

\* <ThreadId as Debug>::fmt
ThreadIdDebug(id) ==
    IF thread_id_debug = "tuple"
    THEN <<"T", "h", "r", "e", "a", "d", "I", "d", "(">> \o Decimal(id) \o <<")">>
    ELSE <<"T", "h", "r", "e", "a", "d", "I", "d", "{">> \o Decimal(id) \o <<"}">>

\* str::strip_prefix: <<rest>> for Some(rest), << >> for None
strip_prefix(s, prefix) ==
    IF Len(s) >= Len(prefix) /\ SubSeq(s, 1, Len(prefix)) = prefix
    THEN <<SubSeq(s, Len(prefix) + 1, Len(s))>>
    ELSE <<>>

strip_suffix(s, suffix) ==
    IF Len(s) >= Len(suffix) /\ SubSeq(s, Len(s) - Len(suffix) + 1, Len(s)) = suffix
    THEN <<SubSeq(s, 1, Len(s) - Len(suffix))>>
    ELSE <<>>

DigitValue(c) == CHOOSE d \in 0..9 : DigitChars[d + 1] = c

IsDigit(c) == \E d \in 0..9 : DigitChars[d + 1] = c

RECURSIVE ParseDigits(_)
ParseDigits(s) ==
    IF Len(s) = 0 THEN 0
    ELSE ParseDigits(SubSeq(s, 1, Len(s) - 1)) * 10 + DigitValue(s[Len(s)])

\* str::parse::<u64>: <<n>> for Ok(n), << >> for Err
parse_u64(s) ==
    IF Len(s) > 0 /\ \A k \in 1..Len(s) : IsDigit(s[k])
    THEN <<ParseDigits(s)>>
    ELSE <<>>

\* threadid_as_u64 panics on one of its three unwraps
threadid_as_u64_panics(id) ==
    LET a == strip_prefix(ThreadIdDebug(id), <<"T", "h", "r", "e", "a", "d", "I", "d", "(">>)
    IN  \/ a = <<>>
        \/ strip_suffix(a[1], <<")">>) = <<>>
        \/ parse_u64(strip_suffix(a[1], <<")">>)[1]) = <<>>

threadid_as_u64(id) ==
    LET a == strip_prefix(ThreadIdDebug(id), <<"T", "h", "r", "e", "a", "d", "I", "d", "(">>)
        b == strip_suffix(a[1], <<")">>)
    IN  parse_u64(b[1])[1]

RECURSIVE Concat(_)
\* the characters of s joined into one string
Concat(s) == IF Len(s) = 0 THEN "" ELSE s[1] \o Concat(Tail(s))

\* std::thread::Thread::name: <<name>> for Some(name), << >> for None.  The
\* main thread is named by the runtime; std::thread::spawn leaves the others
\* unnamed
ThreadNameOf(t) == IF t = 1 THEN <<"main">> ELSE <<>>

(***************************************************************************)
(* Format and its builder.                                                 *)
(***************************************************************************)
Streams == {"Stdout"}

\* Format::new
Format_new ==
    [colorize |-> [tag |-> "BlackWhite", stream |-> "none"],
     color_threads |-> FALSE, thread_names |-> FALSE]

color_if_supported(self, stream) ==
    [self EXCEPT !.colorize = [tag |-> "ColorIf", stream |-> stream]]

force_colors(self) ==
    [self EXCEPT !.colorize = [tag |-> "Color", stream |-> "none"]]

log_thread_names(self) == [self EXCEPT !.thread_names = TRUE]

\* uniquely_color_threads without its call of log_thread_names
uniquely_color_threads_alone(self) == [self EXCEPT !.color_threads = TRUE]

uniquely_color_threads(self) ==
    log_thread_names([self EXCEPT !.color_threads = TRUE])

\* the values one more setter call can give
SetterResults(self) ==
    {color_if_supported(self, s) : s \in Streams}
        \cup {force_colors(self), log_thread_names(self), uniquely_color_threads(self)}

RECURSIVE Formats(_)
\* every Format that Format::new() followed by at most n setter calls builds
Formats(n) ==
    IF n = 0 THEN {Format_new}
    ELSE Formats(n - 1) \cup UNION {SetterResults(f) : f \in Formats(n - 1)}

\* Colorize::use_color: the values it can return.  supports_color asks the
\* terminal and the environment, so either answer is possible for ColorIf
use_color_results(colorize) ==
    CASE colorize.tag = "BlackWhite" -> {FALSE}
      [] colorize.tag = "Color"      -> {TRUE}
      [] OTHER                       -> BOOLEAN

(***************************************************************************)
(* The Display implementations the renderer concatenates.                  *)
(***************************************************************************)
Targets == {"app"}
Messages == {"ready"}
\* what Time::format returns: <<text>> for Ok(text), << >> for Err
TimeResults == {<<"09:05:01.123456">>, <<>>}

\* <Time as Display>::fmt
TimeFmt(formatted) ==
    <<Text(IF formatted = <<>> THEN "??:??:??.??????" ELSE formatted[1])>>

\* the text in the parentheses of the thread label
ThreadLabel(t) ==
    IF ThreadNameOf(t) # <<>> THEN ThreadNameOf(t)[1]
    ELSE Concat(Decimal(threadid_as_u64(t)))

\* ThreadName::fmt without its `if !self.print { return Ok(()) }`
ThreadNameFmt_ignores_print(print, t, thread_style) ==
    <<Text(" ")>> \o Styled(<<Text("(" \o ThreadLabel(t) \o ")")>>, thread_style)

\* ThreadName::fmt that writes the label without `.style(thread_style)`
ThreadNameFmt_unstyled(print, t, thread_style) ==
    IF ~print THEN <<>> ELSE <<Text(" "), Text("(" \o ThreadLabel(t) \o ")")>>

\* <ThreadName as Display>::fmt, once thread_style is known
ThreadNameFmt(print, t, thread_style) ==
    IF ~print THEN <<>>
    ELSE <<Text(" ")>> \o Styled(<<Text("(" \o ThreadLabel(t) \o ")")>>, thread_style)

\* <Level as Display>::fmt
LevelFmt(level, colored) ==
    IF ~colored THEN <<Text(" "), Text("[" \o level \o "]")>> ELSE <<>>

\* Message::fmt that takes level_style(self.level) whatever self.colorize is
MessageFmt_ignores_colorize(colored, level, message) ==
    <<Text(" ")>> \o Styled(<<Text(message)>>, level_style(level))

\* <Message as Display>::fmt
MessageFmt(colored, level, message) ==
    <<Text(" ")>> \o Styled(<<Text(message)>>, IF colored THEN level_style(level) ELSE StyleNew)

\* the format string with the level before the thread name: "{}{}{} {}:{}" fed
\* now, level, thread_name
RenderLine_level_first(colored, thread_label, formatted, level, target, message) ==
    TimeFmt(formatted) \o LevelFmt(level, colored) \o thread_label
        \o <<Text(" "), Text(target), Text(":")>>
        \o MessageFmt(colored, level, message)

\* format_args!("{}{}{} {}:{}", now, thread_name, level, record.target(), msg),
\* with what ThreadName::fmt wrote given as thread_label
RenderLine(colored, thread_label, formatted, level, target, message) ==
    TimeFmt(formatted) \o thread_label
        \o LevelFmt(level, colored)
        \o <<Text(" "), Text(target), Text(":")>>
        \o MessageFmt(colored, level, message)

(***************************************************************************)
(* State.                                                                  *)
(***************************************************************************)
VARIABLES
    format,         \* the Format that `callback` consumed
    use_color,      \* callback: let use_color = self.colorize.use_color()
    thread_name,    \* the ThreadName: [colorize, print]
    thread_colors,  \* the HashMap<ThreadId, Style> inside the RwLock
    index,          \* the AtomicU8
    readers,        \* threads holding a read guard of the RwLock
    writer,         \* the thread holding the write guard, 0 for none
    poisoned,       \* the RwLock is poisoned
    pc,             \* where each thread is in its render
    local_i,        \* per thread: `i` of its last fetch_add, << >> before it
    thread_style,   \* per thread: `thread_style` of its current render
    renders,        \* per thread: records rendered to the end
    sink,           \* the last line handed to out.finish, and for what
    order,          \* history: the threads in the order of their fetch_add
    inserted,       \* history: the threads in the order of their insert
    returned,       \* history: per thread, the styles its lookups returned
    calls,          \* history: per thread, the lookups that returned and the
                    \* fetch_adds made in its current render
    builder,        \* a Format the program still owns: <<format>>, << >> once moved
    other,          \* the ThreadName of the renderer built from it, << >> before
    fn_in,          \* SpecPalette: the arguments gen_color is applied to
    fn_out          \* SpecPalette: what it returned, << >> before the call

vars == <<format, use_color, thread_name, thread_colors, index, readers, writer,
          poisoned, pc, local_i, thread_style, renders, sink, order, inserted,
          returned, calls, builder, other, thread_id_debug, fn_in, fn_out>>

config == <<format, use_color, thread_name>>

\* what no step of a render changes
fixed == <<config, fn_in, fn_out, builder, other, thread_id_debug>>

lock == <<readers, writer, poisoned>>

history == <<order, inserted, returned>>

renderer == <<config, thread_colors, index, lock, pc, local_i, thread_style, renders,
              sink, history>>

MaxSetters == 3

\* `self.color_threads` alone passed to ThreadName::new
ThreadColoring_any_policy(uc, self) == self.color_threads

\* callback: the `colorize` it passes to ThreadName::new,
\* use_color && self.color_threads
ThreadColoring(uc, self) == uc /\ self.color_threads

\* the state `callback` returns in, for the threads of `ts`
InitFor(ts) ==
    /\ format \in Formats(MaxSetters)
    /\ use_color \in use_color_results(format.colorize)
    \* ThreadName::new(use_color && self.color_threads, self.thread_names)
    /\ thread_name = [colorize |-> ThreadColoring(use_color, format),
                      print    |-> format.thread_names]
    /\ thread_colors = <<>>
    /\ index = 0
    /\ readers = {}
    /\ writer = 0
    /\ poisoned = FALSE
    /\ pc = [t \in ts |-> "idle"]
    /\ local_i = [t \in ts |-> <<>>]
    /\ thread_style = [t \in ts |-> StyleNew]
    /\ renders = [t \in ts |-> 0]
    /\ sink = [thread |-> 0, level |-> "", target |-> "", message |-> "", line |-> <<>>]
    /\ order = <<>>
    /\ inserted = <<>>
    /\ returned = [t \in ts |-> {}]
    /\ calls = [t \in ts |-> [lookups |-> 0, fetch_adds |-> 0]]

\* the program has built one Format and turned it into the renderer; fn_in
\* and fn_out are not in use
OneRenderer ==
    /\ builder = <<>>
    /\ other = <<>>
    /\ fn_in = <<>>
    /\ fn_out = <<>>

Init == InitFor(Threads) /\ OneRenderer /\ thread_id_debug = "tuple"

(***************************************************************************)
(* One render: the closure `callback` returns, run by thread t.            *)
(***************************************************************************)
\* a lookup under a key that is never inserted
MapGet_miss(map, id) == <<>>

\* HashMap::get(&id).copied(): <<style>> for Some(style), << >> for None
MapGet(map, id) == IF id \in DOMAIN map THEN <<map[id]>> ELSE <<>>

\* the map replaced by one that holds the new entry alone
MapInsert_only(map, id, style) == [k \in {id} |-> style]

\* HashMap::insert(id, style)
MapInsert(map, id, style) ==
    [k \in DOMAIN map \cup {id} |-> IF k = id THEN style ELSE map[k]]

\* fetch_add(2, SeqCst)
FetchAdd_by_two(v) == (v + 2) % U8Modulus

\* a load in place of the fetch_add: the counter is never advanced
FetchAdd_stuck(v) == v

\* AtomicU8::fetch_add(1, SeqCst): the value stored (the old one is returned)
FetchAdd(v) == (v + 1) % U8Modulus

\* the lookup of t's render returns `style`
Return(t, style) ==
    /\ thread_style' = [thread_style EXCEPT ![t] = style]
    /\ returned' = [returned EXCEPT ![t] = @ \cup {style}]
    /\ calls' = [calls EXCEPT ![t].lookups = @ + 1]

\* the thread unwinds; a write guard dropped while unwinding poisons the lock
Panic(t) ==
    /\ pc' = [pc EXCEPT ![t] = "panicked"]
    /\ readers' = readers \ {t}
    /\ writer' = IF writer = t THEN 0 ELSE writer
    /\ poisoned' = (poisoned \/ writer = t)

\* the dispatcher calls the closure; ThreadName::fmt up to its first lock.
\* Without `print` nothing is written, without `colorize` the style is
\* Style::new() and the lock is never touched
Begin(t) ==
    /\ pc[t] = "idle"
    /\ renders[t] < MaxRenders
    /\ IF thread_name.print /\ thread_name.colorize
       THEN /\ pc' = [pc EXCEPT ![t] = "read"]
            /\ UNCHANGED thread_style
       ELSE /\ pc' = [pc EXCEPT ![t] = "finish"]
            /\ thread_style' = [thread_style EXCEPT ![t] = StyleNew]
    /\ calls' = [calls EXCEPT ![t] = [lookups |-> 0, fetch_adds |-> 0]]
    /\ UNCHANGED <<fixed, thread_colors, index, lock, local_i, renders, sink, history>>

\* self.thread_colors.read().unwrap()
ReadLock(t) ==
    /\ pc[t] = "read"
    /\ writer = 0
    /\ IF poisoned
       THEN Panic(t)
       ELSE /\ readers' = readers \cup {t}
            /\ pc' = [pc EXCEPT ![t] = "read_locked"]
            /\ UNCHANGED <<writer, poisoned>>
    /\ UNCHANGED <<fixed, thread_colors, index, local_i, thread_style, renders,
                   sink, history, calls>>

\* the read guard kept to the end of the match, as when `read()` is called in
\* the scrutinee itself
DropReadGuard_held(held, t) == held

\* the read guard dropped at the closing brace of the block in the scrutinee
DropReadGuard(held, t) == held \ {t}

\* thread_colors.get(&id).copied(), the read guard dropped at the end of the
\* block, and the match on the result
ReadGet(t) ==
    /\ pc[t] = "read_locked"
    /\ readers' = DropReadGuard(readers, t)
    /\ LET found == MapGet(thread_colors, t)
       IN  IF found # <<>>
           THEN /\ Return(t, found[1])
                /\ pc' = [pc EXCEPT ![t] = "finish"]
           ELSE /\ pc' = [pc EXCEPT ![t] = "write"]
                /\ UNCHANGED <<thread_style, returned, calls>>
    /\ UNCHANGED <<fixed, thread_colors, index, writer, poisoned, local_i, renders,
                   sink, order, inserted>>

\* self.thread_colors.write().unwrap()
WriteLock(t) ==
    /\ pc[t] = "write"
    /\ writer = 0
    /\ readers = {}
    /\ IF poisoned
       THEN Panic(t)
       ELSE /\ writer' = t
            /\ pc' = [pc EXCEPT ![t] = "write_locked"]
            /\ UNCHANGED <<readers, poisoned>>
    /\ UNCHANGED <<fixed, thread_colors, index, local_i, thread_style, renders,
                   sink, history, calls>>

\* the re-check under the write guard; on a miss, self.index.fetch_add
Recheck(t) ==
    /\ pc[t] = "write_locked"
    /\ LET found == MapGet(thread_colors, t)
       IN  IF found # <<>>
           THEN /\ Return(t, found[1])
                /\ writer' = 0
                /\ pc' = [pc EXCEPT ![t] = "finish"]
                /\ UNCHANGED <<index, local_i, order>>
           ELSE /\ local_i' = [local_i EXCEPT ![t] = <<index>>]
                /\ index' = FetchAdd(index)
                /\ order' = Append(order, t)
                /\ calls' = [calls EXCEPT ![t].fetch_adds = @ + 1]
                /\ pc' = [pc EXCEPT ![t] = "fetched"]
                /\ UNCHANGED <<writer, thread_style, returned>>
    /\ UNCHANGED <<fixed, thread_colors, readers, poisoned, renders, sink, inserted>>

\* gen_color(i), thread_colors.insert(id, style), and the write guard dropped
\* at the end of the arm
Insert(t) ==
    /\ pc[t] = "fetched"
    /\ IF gen_color_unreachable(local_i[t][1])
       THEN /\ Panic(t)
            /\ UNCHANGED <<thread_colors, inserted, thread_style, returned, calls>>
       ELSE /\ thread_colors' = MapInsert(thread_colors, t, gen_color(local_i[t][1]))
            /\ inserted' = Append(inserted, t)
            /\ Return(t, gen_color(local_i[t][1]))
            /\ writer' = 0
            /\ pc' = [pc EXCEPT ![t] = "finish"]
            /\ UNCHANGED <<readers, poisoned>>
    /\ UNCHANGED <<fixed, index, local_i, renders, sink, order>>

\* the rest of the line: the thread label written with thread_style, the
\* level, the target and the message, handed to out.finish.  The record and
\* the outcome of Time::format are read here for the first time
Finish(t) ==
    /\ pc[t] = "finish"
    /\ IF thread_name.print /\ ThreadNameOf(t) = <<>> /\ threadid_as_u64_panics(t)
       THEN /\ Panic(t)
            /\ UNCHANGED <<renders, sink>>
       ELSE /\ LET thread_label == ThreadNameFmt(thread_name.print, t, thread_style[t])
               IN  \E level \in Levels, target \in Targets, message \in Messages,
                      formatted \in TimeResults :
                      sink' = [thread |-> t, level |-> level, target |-> target,
                               message |-> message,
                               line |-> RenderLine(use_color, thread_label, formatted,
                                                   level, target, message)]
            /\ renders' = [renders EXCEPT ![t] = @ + 1]
            /\ pc' = [pc EXCEPT ![t] = "idle"]
            /\ UNCHANGED lock
    /\ UNCHANGED <<fixed, thread_colors, index, local_i, thread_style, history, calls>>

Step(t) ==
    \/ Begin(t)
    \/ ReadLock(t)
    \/ ReadGet(t)
    \/ WriteLock(t)
    \/ Recheck(t)
    \/ Insert(t)
    \/ Finish(t)

Next == \E t \in Threads : Step(t)

Spec == Init /\ [][Next]_vars

(***************************************************************************)
(* SpecMany: ManyThreads threads, each logging its records before the next *)
(* one starts, on the renderer of                                          *)
(* Format::new().force_colors().uniquely_color_threads().                  *)
(***************************************************************************)
InitMany ==
    /\ InitFor(1..ManyThreads)
    /\ format = uniquely_color_threads(force_colors(Format_new))
    /\ OneRenderer
    /\ thread_id_debug = "tuple"

\* the thread whose turn it is: the first that has records left to log (the
\* threads before it have logged theirs); empty once all have
Turn ==
    {Cardinality({u \in 1..ManyThreads : renders[u] = MaxRenders}) + 1}
        \cap (1..ManyThreads)

NextMany ==
    \/ \E t \in Turn : Begin(t)
    \/ \E t \in Turn : ReadLock(t)
    \/ \E t \in Turn : ReadGet(t)
    \/ \E t \in Turn : WriteLock(t)
    \/ \E t \in Turn : Recheck(t)
    \/ \E t \in Turn : Insert(t)
    \/ \E t \in Turn : Finish(t)

SpecMany == InitMany /\ [][NextMany]_vars

(***************************************************************************)
(* FairSpec: Spec with every thread that is inside the lookup scheduled    *)
(* again until the lookup ends: a thread that can take its next step        *)
(* (the lock it waits for stays free, or it holds what it needs) takes it.  *)
(* Whether a thread logs at all is up to the program, so Begin is under no  *)
(* fairness.                                                               *)
(***************************************************************************)
Lookup(t) == ReadLock(t) \/ ReadGet(t) \/ WriteLock(t) \/ Recheck(t) \/ Insert(t)

FairSpec == Spec /\ \A t \in Threads : WF_vars(Lookup(t))

(***************************************************************************)
(* SpecPalette: gen_color applied to an index i, to i + 28 and to an index *)
(* j of the first period.  The arguments are u8 values.                    *)
(***************************************************************************)
PaletteInit ==
    /\ InitFor({})
    /\ format = Format_new
    /\ fn_in \in [i : 0..(U8Modulus - 1 - BOLD * COLOR * ITALIC),
                  j : 0..(BOLD * COLOR * ITALIC - 1)]
    /\ fn_out = <<>>
    /\ builder = <<>>
    /\ other = <<>>
    /\ thread_id_debug = "tuple"

ApplyPalette ==
    /\ fn_out = <<>>
    /\ fn_out' = <<[at_i       |-> gen_color(fn_in.i),
                    at_shifted |-> gen_color(fn_in.i + BOLD * COLOR * ITALIC),
                    at_j       |-> gen_color(fn_in.j),
                    panics     |-> gen_color_unreachable(fn_in.i)]>>
    /\ UNCHANGED <<fn_in, renderer, calls, builder, other, thread_id_debug>>

SpecPalette == PaletteInit /\ [][ApplyPalette]_vars

(***************************************************************************)
(* SpecTwo: the program builds the same Format twice and calls `callback`  *)
(* on each.  The first renderer is the one of Spec, its threads logging one *)
(* after the other; of the second only the ThreadName is kept, in `other`, *)
(* and a render on it is one step that can fall between any two steps of   *)
(* the first.                                                              *)
(***************************************************************************)
\* the new ThreadName shares the map and the counter that exist already, as
\* process-wide statics would
ThreadName_new_shared(colorize, print) ==
    [colorize |-> colorize, print |-> print,
     thread_colors |-> thread_colors, index |-> index]

\* ThreadName::new
ThreadName_new(colorize, print) ==
    [colorize |-> colorize, print |-> print, thread_colors |-> <<>>, index |-> 0]

\* the lookup of ThreadName::fmt run by thread t on the ThreadName `self` with
\* no step of another thread in between: the ThreadName it leaves
StyleLookup(self, t) ==
    IF ~(self.print /\ self.colorize) \/ MapGet(self.thread_colors, t) # <<>>
    THEN self
    ELSE [self EXCEPT !.index = FetchAdd(self.index),
                      !.thread_colors = MapInsert(@, t, gen_color(self.index))]

InitTwo ==
    /\ InitFor(Threads)
    /\ format = uniquely_color_threads(force_colors(Format_new))
    /\ builder = <<uniquely_color_threads(force_colors(Format_new))>>
    /\ other = <<>>
    /\ thread_id_debug = "tuple"
    /\ fn_in = <<>>
    /\ fn_out = <<>>

\* `callback(self)` on the Format the program still owns: the Format is moved
\* into the call (it is neither Clone nor Copy), so there is no second call
CallbackOther ==
    /\ builder # <<>>
    /\ \E uc \in use_color_results(builder[1].colorize) :
           other' = <<ThreadName_new(ThreadColoring(uc, builder[1]),
                                     builder[1].thread_names)>>
    /\ builder' = <<>>
    /\ UNCHANGED <<renderer, calls, thread_id_debug, fn_in, fn_out>>

\* thread t logs a record through the second renderer
RenderOther(t) ==
    /\ other # <<>>
    /\ other' = <<StyleLookup(other[1], t)>>
    /\ UNCHANGED <<renderer, calls, builder, thread_id_debug, fn_in, fn_out>>

\* the thread whose turn it is on the first renderer, as in SpecMany
TurnTwo ==
    {Cardinality({u \in Threads : renders[u] = MaxRenders}) + 1} \cap Threads

NextTwo ==
    \/ \E t \in TurnTwo : Begin(t)
    \/ \E t \in TurnTwo : ReadLock(t)
    \/ \E t \in TurnTwo : ReadGet(t)
    \/ \E t \in TurnTwo : WriteLock(t)
    \/ \E t \in TurnTwo : Recheck(t)
    \/ \E t \in TurnTwo : Insert(t)
    \/ \E t \in TurnTwo : Finish(t)
    \/ CallbackOther
    \/ \E t \in Threads : RenderOther(t)

SpecTwo == InitTwo /\ [][NextTwo]_vars

(***************************************************************************)
(* SpecFragile: Spec on a std of either Debug form of ThreadId.            *)
(***************************************************************************)
InitFragile ==
    /\ InitFor(Threads)
    /\ OneRenderer
    /\ thread_id_debug \in DebugForms

SpecFragile == InitFragile /\ [][Next]_vars

(***************************************************************************)
(* SpecBuilder: setter calls on Format::new(), one after the other, each   *)
(* taking the Format by value and returning the next; fn_in is the         *)
(* sequence of the calls made.                                             *)
(***************************************************************************)
\* supports_color::Stream
AllStreams == {"Stdout", "Stderr"}

InitBuilder ==
    /\ InitFor({})
    /\ format = Format_new
    /\ builder = <<Format_new>>
    /\ other = <<>>
    /\ thread_id_debug = "tuple"
    /\ fn_in = <<>>
    /\ fn_out = <<>>

\* the setter call `call` is made on the Format and gives `result`
Called(call, result) ==
    /\ Len(fn_in) < MaxSetters
    /\ fn_in' = Append(fn_in, call)
    /\ builder' = <<result>>
    /\ UNCHANGED <<renderer, calls, other, thread_id_debug, fn_out>>

CallColorIfSupported ==
    \E stream \in AllStreams :
        Called([op |-> "color_if_supported", stream |-> stream],
               color_if_supported(builder[1], stream))

CallForceColors ==
    Called([op |-> "force_colors", stream |-> "none"], force_colors(builder[1]))

CallLogThreadNames ==
    Called([op |-> "log_thread_names", stream |-> "none"], log_thread_names(builder[1]))

CallUniquelyColorThreads ==
    Called([op |-> "uniquely_color_threads", stream |-> "none"],
           uniquely_color_threads(builder[1]))

NextBuilder ==
    \/ CallColorIfSupported
    \/ CallForceColors
    \/ CallLogThreadNames
    \/ CallUniquelyColorThreads

SpecBuilder == InitBuilder /\ [][NextBuilder]_vars

(***************************************************************************)
(* Properties.                                                             *)
(***************************************************************************)
Count(seq, x) == Cardinality({k \in 1..Len(seq) : seq[k] = x})

Range(seq) == {seq[k] : k \in 1..Len(seq)}

Pos(seq, x) == CHOOSE k \in 1..Len(seq) : seq[k] = x

Total == BOLD * COLOR * ITALIC

\* the threads that have taken an index from the counter
Indexed == {t \in DOMAIN pc : local_i[t] # <<>>}

\* C1: in every interleaving a thread identity causes at most one
\* fetch_add and at most one insert, and a re-check under the write guard
\* that finds the identity returns the stored style and leaves the counter
\* and the map alone.
C1_OneAssignmentPerThread ==
    /\ [](\A t \in DOMAIN pc : Count(order, t) <= 1 /\ Count(inserted, t) <= 1)
    /\ [][\A t \in DOMAIN pc :
            (pc[t] = "write_locked" /\ pc'[t] # "write_locked"
                /\ t \in DOMAIN thread_colors)
            => /\ index' = index
               /\ thread_colors' = thread_colors
               /\ thread_style'[t] = thread_colors[t]]_vars

\* every thread has been assigned in a race and has looked its style up again
C1_Witness ==
    /\ Len(order) = NumThreads
    /\ Len(inserted) = NumThreads
    /\ \A t \in DOMAIN pc : renders[t] = MaxRenders

\* C2: when N threads have made their first styled render on a fresh
\* renderer, the indices they took from the counter are pairwise distinct
\* and are exactly 0..N-1, for every N (N threads whose indices form the
\* N-element set 0..N-1 hold pairwise different indices).
C2_IndicesArePermutation ==
    {local_i[t][1] : t \in Indexed} = 0..(Cardinality(Indexed) - 1)

\* C3: once a thread has a style, every later lookup by that thread returns
\* that style: all the styles its lookups returned are the one stored for it.
C3_SameStyleEveryLookup ==
    \A t \in DOMAIN pc :
        returned[t] # {} => t \in DOMAIN thread_colors /\ returned[t] = {thread_colors[t]}

\* t was assigned, then u, and t has rendered all its records
C3_Witness ==
    \E t, u \in DOMAIN pc :
        /\ inserted = <<t, u>>
        /\ renders[t] = MaxRenders
        /\ renders[u] >= 1
        /\ sink.thread = t

\* C4: the map is empty when the renderer is constructed and every step keeps
\* every entry it holds: no removal, no change of a stored style.
C4_AppendOnly ==
    /\ thread_colors = <<>>
    /\ [][\A id \in DOMAIN thread_colors :
            id \in DOMAIN thread_colors' /\ thread_colors'[id] = thread_colors[id]]_vars

\* the map has grown entry by entry and has been read again since
C4_Witness ==
    /\ Cardinality(DOMAIN thread_colors) = NumThreads
    /\ \E t \in DOMAIN pc : renders[t] = MaxRenders

\* C5: the k-th thread to be assigned (k counted from 0) takes index k and is
\* stored with styleOf(k mod 28), whatever its identity.
C5_IndexIsNumberAssigned ==
    \A k \in 1..Len(inserted) :
        /\ local_i[inserted[k]] = <<k - 1>>
        /\ thread_colors[inserted[k]] = gen_color((k - 1) % Total)

\* C6, as claimed: the threads are spawned in the order of their ids, so if
\* the spawn order fixed the assignment, every run would end with the
\* assignment of the run in which they also render in that order.
C6_SpawnOrderDeterminesStyles ==
    (\A t \in DOMAIN pc : t \in DOMAIN thread_colors)
        => thread_colors = [t \in DOMAIN pc |-> gen_color((t - 1) % U8Modulus)]

\* C6, amended: the assignment is a function of the order in which the
\* threads take their first styled render: the k-th to take the write guard
\* on a miss (k from 0) is stored with gen_color(k mod 256).
C6_FirstRenderOrderDeterminesStyles ==
    /\ Len(inserted) <= Len(order)
    /\ inserted = SubSeq(order, 1, Len(inserted))
    /\ thread_colors =
           [t \in Range(inserted) |-> gen_color((Pos(inserted, t) - 1) % U8Modulus)]

\* the thread spawned second was assigned first, and all have rendered
C6_Witness ==
    /\ inserted = <<2, 1>>
    /\ \A t \in DOMAIN pc : renders[t] = MaxRenders

InLookup == {"read", "read_locked", "write", "write_locked", "fetched"}

\* C7: no thread aborts, and under fair scheduling no thread stays inside a
\* lookup for ever: every lookup a thread has started comes to its end, and
\* the only end that is not a panic is the return of a style.
C7_LookupReturns ==
    /\ [](\A t \in Threads : pc[t] # "panicked")
    /\ \A t \in Threads : []<>(pc[t] \notin InLookup)

\* thread 1 has returned from a lookup that missed while thread 2 waits for
\* the write lock
C7_Witness ==
    /\ pc[1] = "finish"
    /\ renders[1] = 0
    /\ local_i[1] # <<>>
    /\ pc[2] = "write"

\* the 2 x 2 x 7 styles
Combinations ==
    [fg : Range(Hues), bold : BOOLEAN, italic : BOOLEAN, dimmed : {FALSE}]

\* C8: gen_color(i) = gen_color(i + 28) for every index, and gen_color is
\* injective on 0..27, with values among the 2 x 2 x 7 combinations (so
\* 0..27 enumerate them all exactly once).
C8_PalettePeriodicInjective ==
    fn_out # <<>> =>
        /\ ~fn_out[1].panics
        /\ fn_out[1].at_i = fn_out[1].at_shifted
        /\ fn_out[1].at_j \in Combinations
        /\ (fn_in.i < Total /\ fn_in.i # fn_in.j) => fn_out[1].at_i # fn_out[1].at_j

\* gen_color has been applied to the last index of the first period and to
\* the last index whose shift by 28 is still a u8
C8_Witness ==
    /\ fn_out # <<>>
    /\ fn_in.i = U8Modulus - 1 - Total
    /\ fn_in.j = Total - 1

\* C9: a renderer built with Colorize::BlackWhite writes, for every record
\* and thread and whatever the thread options, a line that holds the
\* bracketed level label and no ANSI escape.
C9_NoColorPolicy ==
    (format.colorize.tag = "BlackWhite" /\ sink.thread # 0) =>
        /\ \E k \in 1..Len(sink.line) : sink.line[k] = Text("[" \o sink.level \o "]")
        /\ \A k \in 1..Len(sink.line) : sink.line[k].kind = "text"

\* an unnamed thread has logged on a colorless renderer that has both thread
\* options set
C9_Witness ==
    /\ format.colorize.tag = "BlackWhite"
    /\ format.color_threads
    /\ sink.thread = 2
    /\ sink.level = "WARN"

\* the thread labels of the threads of the model, named and unnamed
LabelTexts == {"(main)"} \cup {"(" \o Concat(Decimal(t)) \o ")" : t \in DOMAIN pc}

\* C10: with thread names disabled a line holds no thread label: no
\* parenthetical and no space for one (the timestamp is followed by one
\* space and the level label, or the target when the label is left out).
C10_NoThreadLabel ==
    (~format.thread_names /\ sink.thread # 0) =>
        /\ \A k \in 1..Len(sink.line) : sink.line[k].text \notin LabelTexts
        /\ sink.line[2] = Text(" ")
        /\ sink.line[3] =
               IF use_color THEN Text(sink.target) ELSE Text("[" \o sink.level \o "]")

\* an unnamed thread has logged in color on a renderer without thread names
C10_Witness ==
    /\ ~format.thread_names
    /\ use_color
    /\ sink.thread = 2

RECURSIVE LineText(_)
\* the characters of a line that are not escape codes
LineText(line) ==
    IF Len(line) = 0 THEN "" ELSE Head(line).text \o LineText(Tail(line))

\* C11: every line handed to the sink is, in this order, the timestamp (or
\* its placeholder); " (label)" iff thread names are enabled; " [LEVEL]" iff
\* use_color is false; " target:"; " message"; and nothing after it.  The
\* label is the thread's name or, for an unnamed thread, its id in decimal;
\* escape codes surround the label (thread coloring active) and the message
\* (use_color) and nothing else.  A plain renderer gives
\* "09:05:01.123456 [INFO] app: ready", and with thread names the thread
\* named main gives "09:05:01.123456 (main) [ERROR] app: ready".
C11_FixedPieceOrder ==
    sink.thread # 0 =>
        LET t      == sink.thread
            active == use_color /\ format.color_threads
            name   == IF t = 1 THEN "main" ELSE ToString(t)
            label  == IF ~format.thread_names THEN <<>>
                      ELSE <<Text(" ")>>
                           \o (IF active THEN <<AnsiPrefix(thread_colors[t])>> ELSE <<>>)
                           \o <<Text("(" \o name \o ")")>>
                           \o (IF active THEN <<AnsiReset>> ELSE <<>>)
            level  == IF use_color THEN <<>>
                      ELSE <<Text(" "), Text("[" \o sink.level \o "]")>>
            msg    == IF use_color
                      THEN <<AnsiPrefix(level_style(sink.level)), Text(sink.message),
                             AnsiReset>>
                      ELSE <<Text(sink.message)>>
        IN  /\ sink.line[1] \in {Text("09:05:01.123456"), Text("??:??:??.??????")}
            /\ sink.line = <<sink.line[1]>> \o label \o level
                               \o <<Text(" "), Text(sink.target), Text(":"), Text(" ")>>
                               \o msg
            /\ (format = Format_new /\ sink.level = "INFO"
                    /\ sink.line[1].text = "09:05:01.123456")
                   => LineText(sink.line) = "09:05:01.123456 [INFO] app: ready"
            /\ (~use_color /\ format.thread_names /\ t = 1 /\ sink.level = "ERROR"
                    /\ sink.line[1].text = "09:05:01.123456")
                   => LineText(sink.line) = "09:05:01.123456 (main) [ERROR] app: ready"

\* the thread named main has logged an error on a colorless renderer that
\* writes thread names, and the timestamp was formatted
C11_Witness ==
    /\ sink.thread = 1
    /\ ~use_color
    /\ format.thread_names
    /\ sink.level = "ERROR"
    /\ sink.line[1].text = "09:05:01.123456"

\* C12 as stated, its last clause: the Format that produced a renderer can
\* produce another one.
C12_BuilderProducesAnother ==
    other # <<>> => ENABLED CallbackOther

\* C12: the ThreadName of each renderer starts with an empty map and the
\* counter at 0, whatever the other renderer holds by then; a step that
\* changes one renderer's map, counter, locks or returned styles leaves the
\* other renderer as it is; a style stored in the second renderer's map never
\* changes; and each Format produces one renderer (callback consumes it), so
\* two renderers come from two Formats.
C12_RenderersIndependent ==
    /\ thread_colors = <<>> /\ index = 0
    /\ [][(other = <<>> /\ other' # <<>>) =>
              (other'[1].thread_colors = <<>> /\ other'[1].index = 0)]_vars
    /\ [][other' # other =>
              UNCHANGED <<thread_colors, index, lock, thread_style, returned, sink>>]_vars
    /\ [][<<thread_colors, index, thread_style>>' # <<thread_colors, index, thread_style>>
              => other' = other]_vars
    /\ [][other # <<>> =>
              /\ other' # <<>>
              /\ \A t \in DOMAIN other[1].thread_colors :
                     /\ t \in DOMAIN other'[1].thread_colors
                     /\ other'[1].thread_colors[t] = other[1].thread_colors[t]]_vars
    /\ [](other # <<>> =>
              /\ builder = <<>>
              /\ other[1].index = Cardinality(DOMAIN other[1].thread_colors))

\* both renderers have styled both threads, and thread 1 has a different
\* style in each
C12_Witness ==
    /\ other # <<>>
    /\ DOMAIN thread_colors = Threads
    /\ DOMAIN other[1].thread_colors = Threads
    /\ thread_colors[1] # other[1].thread_colors[1]

\* C13: no render ends in a panic: whichever step of it fails (Time::format,
\* the extraction of the number from the Debug form of the ThreadId of an
\* unnamed thread, a lock), the thread goes on and hands a line to the sink.
C13_NoRenderPanics ==
    \A t \in DOMAIN pc : pc[t] # "panicked"

\* the positions of fn_in that hold a call of one of `ops`
CallsOf(ops) == {k \in 1..Len(fn_in) : fn_in[k].op \in ops}

\* C14: after any sequence of setter calls on Format::new(), colorize is what
\* the last call of color_if_supported or force_colors set (BlackWhite when
\* there is none); thread_names is true iff log_thread_names or
\* uniquely_color_threads was called and color_threads iff
\* uniquely_color_threads was called, wherever in the sequence; and
\* color_threads implies thread_names.
C14_LastColorSetterWins ==
    LET f      == builder[1]
        colors == CallsOf({"color_if_supported", "force_colors"})
        last   == fn_in[CHOOSE k \in colors : \A j \in colors : j <= k]
    IN  /\ f.colorize =
               IF colors = {} THEN [tag |-> "BlackWhite", stream |-> "none"]
               ELSE IF last.op = "force_colors" THEN [tag |-> "Color", stream |-> "none"]
               ELSE [tag |-> "ColorIf", stream |-> last.stream]
        /\ f.thread_names
               <=> CallsOf({"log_thread_names", "uniquely_color_threads"}) # {}
        /\ f.color_threads <=> CallsOf({"uniquely_color_threads"}) # {}
        /\ f.color_threads => f.thread_names

\* uniquely_color_threads was called first, then two color setters, the last
\* of them color_if_supported(Stderr)
C14_Witness ==
    /\ Len(fn_in) = MaxSetters
    /\ fn_in[1].op = "uniquely_color_threads"
    /\ fn_in[Len(fn_in) - 1].op = "force_colors"
    /\ fn_in[Len(fn_in)] = [op |-> "color_if_supported", stream |-> "Stderr"]

\* C15: the counter only ever grows: no step takes it to a smaller value, so
\* it never holds again a value it held before.
C15_IndexNeverDecreases ==
    [][index' >= index]_vars

\* C16: a thread holds the read guard only between read() and the end of
\* the block that looks the id up, and the write guard only from write() to
\* the end of the miss arm: it holds neither when it asks for the write lock
\* or when the lookup has returned, and never both.  A lookup that finds
\* the id under the read guard returns without touching the write lock.
\* The map changes only in a step of the thread that holds the write guard,
\* by that thread's own entry, and no thread holds a read guard then.
C16_LockDiscipline ==
    /\ [](\A t \in DOMAIN pc :
              /\ t \in readers <=> pc[t] = "read_locked"
              /\ writer = t <=> pc[t] \in {"write_locked", "fetched"}
              /\ ~(t \in readers /\ writer = t)
              /\ pc[t] \in {"write", "finish", "idle"} => (t \notin readers /\ writer # t))
    /\ [](writer # 0 => readers = {})
    /\ [][\A t \in DOMAIN pc :
              (pc[t] = "read_locked" /\ pc'[t] = "finish") =>
                  (writer' = writer /\ writer # t /\ t \notin readers')]_vars
    /\ [][thread_colors' # thread_colors =>
              /\ writer # 0
              /\ pc[writer] = "fetched"
              /\ pc'[writer] = "finish"
              /\ readers = {}
              /\ DOMAIN thread_colors' = DOMAIN thread_colors \cup {writer}
              /\ \A u \in DOMAIN thread_colors : thread_colors'[u] = thread_colors[u]]_vars

\* both threads missed under the read guard; one holds the write guard and
\* has taken its index, the other waits for the write lock with no guard
C16_Witness ==
    /\ pc[1] = "fetched"
    /\ writer = 1
    /\ pc[2] = "write"
    /\ readers = {}

\* the style C17 gives for the index i
C17_Expected(i) ==
    LET r == i % 28
    IN  [fg     |-> <<"bright_white", "bright_blue", "bright_yellow", "bright_cyan",
                      "bright_purple", "bright_green", "bright_red">>[(r % 7) + 1],
         bold   |-> (r % 14) >= 7,
         italic |-> r >= 14,
         dimmed |-> FALSE]

\* C17: for every u8 index i, with r = i mod 28, gen_color(i) has the hue
\* number r mod 7 of bright white, blue, yellow, cyan, purple, green, red,
\* is bold iff (r mod 14) >= 7 and italic iff r >= 14, and no
\* `unreachable!()` arm is reached.
C17_MixedRadixDigits ==
    fn_out # <<>> =>
        /\ fn_out[1].at_i = C17_Expected(fn_in.i)
        /\ fn_out[1].at_shifted = C17_Expected(fn_in.i + 28)
        /\ fn_out[1].at_j = C17_Expected(fn_in.j)
        /\ ~fn_out[1].panics

\* gen_color has been applied to 21, italic and bold with the first hue, and
\* to 13, bold with the last hue
C17_Witness ==
    /\ fn_out # <<>>
    /\ fn_in.i = 21
    /\ fn_out[1].at_i = [fg |-> "bright_white", bold |-> TRUE, italic |-> TRUE,
                          dimmed |-> FALSE]
    /\ fn_in.j = 13
    /\ fn_out[1].at_j = [fg |-> "bright_red", bold |-> TRUE, italic |-> FALSE,
                          dimmed |-> FALSE]

\* the thread label of the line in the sink is one span in the style the map
\* holds for the thread that wrote it, which is the one style every lookup of
\* that thread returned, and the render that wrote it made one lookup
LabelStyledByCache ==
    LET t == sink.thread
    IN  /\ t \in DOMAIN thread_colors
        /\ returned[t] = {thread_colors[t]}
        /\ Len(sink.line) >= 5
        /\ sink.line[3] = AnsiPrefix(thread_colors[t])
        /\ sink.line[4].kind = "text" /\ sink.line[4].text \in LabelTexts
        /\ sink.line[5] = AnsiReset
        /\ pc[t] = "idle" => calls[t].lookups = 1

\* in its current render no thread has had more than one lookup return or
\* made more than one fetch_add
AtMostOneLookup ==
    \A t \in DOMAIN pc : calls[t].lookups <= 1 /\ calls[t].fetch_adds <= 1

\* C18 as stated: whenever color_threads is set in the Format, a render makes
\* at most one lookup and one fetch_add and the label of its line is styled
\* with the style the map returned for the thread.
C18_ColorThreadsStylesLabel ==
    /\ AtMostOneLookup
    /\ (format.color_threads /\ sink.thread # 0) => LabelStyledByCache

\* C18: a render makes at most one lookup and at most one fetch_add, and
\* whenever color_threads is set and use_color is true the label of its line
\* is styled, as one span, with the style the map returned for the thread.
C18_ActiveColoringStylesLabel ==
    /\ AtMostOneLookup
    /\ (use_color /\ format.color_threads /\ sink.thread # 0) => LabelStyledByCache

\* the unnamed thread has logged its last record in color with thread
\* colors: its second lookup hit, with no fetch_add
C18_Witness ==
    /\ use_color
    /\ format.color_threads
    /\ sink.thread = 2
    /\ pc[2] = "idle"
    /\ renders[2] = MaxRenders
    /\ calls[2] = [lookups |-> 1, fetch_adds |-> 0]

\* C19: whenever no thread holds the write guard, the counter equals the
\* number of entries of the map modulo 256, and the k-th entry inserted holds
\* the style of index k - 1 (modulo 256); while a thread is between its
\* fetch_add and its insert, under the write guard, the counter is one
\* ahead.
C19_IndexCountsEntries ==
    LET entries == Cardinality(DOMAIN thread_colors)
    IN  /\ writer = 0 =>
               /\ index = entries % U8Modulus
               /\ Len(inserted) = entries
               /\ \A k \in 1..Len(inserted) :
                      thread_colors[inserted[k]] = gen_color((k - 1) % U8Modulus)
        /\ (writer # 0 /\ pc[writer] = "fetched") => index = (entries + 1) % U8Modulus

\* thread 2 inserted first and thread 1 second, and the write guard is free
C19_Witness ==
    /\ writer = 0
    /\ inserted = <<2, 1>>
    /\ index = 2

\* C20: unless use_color is true and color_threads is set (thread_names is
\* then set too), no render takes a lock, makes a lookup, inserts or
\* advances the counter: the map stays empty and the counter 0.
C20_InactiveColoringLeavesCacheAlone ==
    ~(use_color /\ format.color_threads /\ format.thread_names) =>
        /\ thread_colors = <<>>
        /\ index = 0
        /\ readers = {} /\ writer = 0
        /\ order = <<>> /\ inserted = <<>>
        /\ \A t \in DOMAIN pc :
               /\ pc[t] \notin InLookup
               /\ calls[t] = [lookups |-> 0, fetch_adds |-> 0]
               /\ returned[t] = {}

\* every thread has logged all its records on a renderer that has
\* color_threads set and resolved use_color to false
C20_Witness ==
    /\ format.color_threads
    /\ ~use_color
    /\ sink.thread # 0
    /\ \A t \in DOMAIN pc : renders[t] = MaxRenders
====
